---- MODULE Spec2Model ----
(***************************************************************************)
(* The nbg command-line client (src/src/index.js, src/src/api.js) as a     *)
(* state machine.  One step is one run of the program: a `config` verb,   *)
(* or a data command together with the outcome of the single HTTP request *)
(* it awaits.  The state is the persisted configuration and the record of *)
(* the last run: the command line, the requests handed to the HTTP        *)
(* client, the response it produced, what was written to standard output  *)
(* and standard error, and the exit code.  The streams hold the lines     *)
(* the program itself writes with console.log and console.error; the       *)
(* animation the ora spinner draws on the terminal while the request is   *)
(* awaited, and erases on stop(), is not a line of either.                 *)
(*                                                                         *)
(* Conventions.                                                            *)
(*  - A JavaScript value that is a string or undefined is a record        *)
(*    [def, str]; Undefined has def = FALSE.                               *)
(*  - A JSON object is a record that holds exactly the keys present in    *)
(*    it; a JSON array is a sequence.                                      *)
(*  - A line written by console.log / console.error is [text |-> s]; the  *)
(*    result of JSON.stringify(v, null, n) is kept symbolic as            *)
(*    [json |-> v, space |-> n].  chalk styling is not part of the text.  *)
(*  - The characters U+2713, U+2717 and U+2500 are written "v", "x", "-". *)
(***************************************************************************)
EXTENDS Integers, Sequences, FiniteSets, TLC

VARIABLES config, stored, cmd, requests, response, stdout, stderr, exitCode

vars == <<config, stored, cmd, requests, response, stdout, stderr, exitCode>>

(***************************************************************************)
(* Bounds of the model.                                                    *)
(***************************************************************************)
\* Longest list a response body carries.
MaxItems == 2

(***************************************************************************)
(* JavaScript values and strings.                                          *)
(***************************************************************************)
Undefined == [def |-> FALSE, str |-> ""]

Str(s) == [def |-> TRUE, str |-> s]

EmptyObj == [k \in {} |-> ""]

\* JavaScript truthiness of a string-or-undefined value.
Truthy(v) == v.def /\ v.str # ""

\* a || b
OrElse(a, b) == IF Truthy(a) THEN a ELSE b

\* a ?? b
Nullish(a, b) == IF a.def THEN a ELSE b

\* String(v), also the text of v inside a string concatenation.
StringOf(v) == IF v.def THEN v.str ELSE "undefined"

\* o.k for a string-valued property k of the JSON object o.
Prop(o, k) == IF k \in DOMAIN o THEN Str(o[k]) ELSE Undefined

\* o.k1?.k2
OptProp(o, k1, k2) == IF k1 \in DOMAIN o THEN Prop(o[k1], k2) ELSE Undefined

\* o.k || {} for an object-valued property k.
ObjOrEmpty(o, k) == IF k \in DOMAIN o THEN o[k] ELSE EmptyObj

\* o.k || [] for an array-valued property k.
ArrOrEmpty(o, k) == IF k \in DOMAIN o THEN o[k] ELSE <<>>

Min(a, b) == IF a <= b THEN a ELSE b

Max(a, b) == IF a >= b THEN a ELSE b

RECURSIVE Repeat(_, _)
\* String.prototype.repeat
Repeat(s, n) ==
    IF n <= 0 THEN ""
    ELSE IF n = 1 THEN s
    ELSE Repeat(s, n \div 2) \o Repeat(s, n - (n \div 2))

\* String.prototype.padEnd with the default fill, a space.
padEnd(s, n) == IF Len(s) >= n THEN s ELSE s \o Repeat(" ", n - Len(s))

\* s.substring(0, n)
substring0(s, n) == IF Len(s) <= n THEN s ELSE SubSeq(s, 1, Max(n, 0))

RECURSIVE Join(_, _)
\* Array.prototype.join on an array of strings.
Join(seq, sep) ==
    IF Len(seq) = 0 THEN ""
    ELSE IF Len(seq) = 1 THEN seq[1]
    ELSE seq[1] \o sep \o Join(Tail(seq), sep)

Digit(d) == SubSeq("0123456789", d + 1, d + 1)

RECURSIVE NatToStr(_)
\* The decimal text of a natural number, as a template literal prints it.
NatToStr(n) == IF n < 10 THEN Digit(n) ELSE NatToStr(n \div 10) \o Digit(n % 10)

(***************************************************************************)
(* Console output.                                                         *)
(***************************************************************************)
Text(s) == [text |-> s]

\* console.log(a, b): the arguments separated by one space.
Log2(a, b) == Text(a \o " " \o b)

\* JSON.stringify(value, null, space), kept symbolic.
JSONStringify(value, space) == [json |-> value, space |-> space]

printSuccess(message) == <<Text("v" \o " " \o message)>>

printError(message) == <<Text("x" \o " " \o message)>>

printJson(data) == <<JSONStringify(data, 2)>>

(***************************************************************************)
(* Persisted configuration (config.js, which index.js and api.js import). *)
(***************************************************************************)
ConfigKeys == {"baseUrl", "accessToken", "sandboxId"}

getConfig(key) == config[key]

setConfig(cfg, key, value) == [cfg EXCEPT ![key] = Str(value)]

DefaultBaseUrl == "https://apis.nbg.gr/uk/v3_1"

(***************************************************************************)
(* api.js: the HTTP client and one function per endpoint.  A request is   *)
(* what the function hands to the axios instance: the instance's baseURL  *)
(* and headers, the method, the url, and the params / data it passes.     *)
(***************************************************************************)
\* Two variants of getClient with a slip.
\* getClient that takes no base URL from the configuration.
getClientDefaultOnly ==
    LET accessToken == getConfig("accessToken")
        sandboxId == getConfig("sandboxId")
        headers ==
            [Accept |-> "application/json"]
            @@ ("Content-Type" :> "application/json")
            @@ (IF Truthy(accessToken)
                THEN "Authorization" :> ("Bearer " \o accessToken.str)
                ELSE EmptyObj)
            @@ (IF Truthy(sandboxId)
                THEN "sandbox-id" :> sandboxId.str
                ELSE EmptyObj)
    IN [baseURL |-> DefaultBaseUrl, headers |-> headers]

\* getClient that sends the token bare and no sandbox id.
getClientBareToken ==
    LET baseUrl == OrElse(getConfig("baseUrl"), Str(DefaultBaseUrl))
        accessToken == getConfig("accessToken")
        headers ==
            [Accept |-> "application/json"]
            @@ ("Content-Type" :> "application/json")
            @@ (IF Truthy(accessToken)
                THEN "Authorization" :> accessToken.str
                ELSE EmptyObj)
    IN [baseURL |-> baseUrl.str, headers |-> headers]

getClient ==
    LET baseUrl == OrElse(getConfig("baseUrl"), Str(DefaultBaseUrl))
        accessToken == getConfig("accessToken")
        sandboxId == getConfig("sandboxId")
        headers ==
            [Accept |-> "application/json"]
            @@ ("Content-Type" :> "application/json")
            @@ (IF Truthy(accessToken)
                THEN "Authorization" :> ("Bearer " \o accessToken.str)
                ELSE EmptyObj)
            @@ (IF Truthy(sandboxId)
                THEN "sandbox-id" :> sandboxId.str
                ELSE EmptyObj)
    IN [baseURL |-> baseUrl.str, headers |-> headers]

\* client.get(url) / client.delete(url)
Call(client, method, url) ==
    [method |-> method, baseURL |-> client.baseURL, headers |-> client.headers,
     url |-> url]

\* client.get(url, { params })
CallParams(client, method, url, params) ==
    Call(client, method, url) @@ [params |-> params]

\* client.post(url, data)
CallData(client, method, url, data) ==
    Call(client, method, url) @@ [data |-> data]

createConsent(data) == CallData(getClient, "POST", "/account-access-consents", data)

getConsent(consentId) == Call(getClient, "GET", "/account-access-consents/" \o consentId)

deleteConsent(consentId) == Call(getClient, "DELETE", "/account-access-consents/" \o consentId)

getAccounts(params) == CallParams(getClient, "GET", "/accounts", params)

getAccount(accountId) == Call(getClient, "GET", "/accounts/" \o accountId)

\* getAccountBalances that asks for the account itself.
getAccountBalancesNoSuffix(accountId) == Call(getClient, "GET", "/accounts/" \o accountId)

getAccountBalances(accountId) == Call(getClient, "GET", "/accounts/" \o accountId \o "/balances")

getAllBalances(params) == CallParams(getClient, "GET", "/balances", params)

getAccountTransactions(accountId, params) ==
    CallParams(getClient, "GET", "/accounts/" \o accountId \o "/transactions", params)

\* getAllTransactions that does not pass its params on.
getAllTransactionsNoParams(params) == CallParams(getClient, "GET", "/transactions", EmptyObj)

getAllTransactions(params) == CallParams(getClient, "GET", "/transactions", params)

getAccountBeneficiaries(accountId) ==
    Call(getClient, "GET", "/accounts/" \o accountId \o "/beneficiaries")

getAccountStandingOrders(accountId) ==
    Call(getClient, "GET", "/accounts/" \o accountId \o "/standing-orders")

getAccountScheduledPayments(accountId) ==
    Call(getClient, "GET", "/accounts/" \o accountId \o "/scheduled-payments")

getAccountStatements(accountId, params) ==
    CallParams(getClient, "GET", "/accounts/" \o accountId \o "/statements", params)

getAccountParty(accountId) == Call(getClient, "GET", "/accounts/" \o accountId \o "/party")

createSandbox(data) == CallData(getClient, "POST", "/sandbox", data)

\* withSpinner that calls fn a second time.
withSpinnerRetry(calls) == calls \o calls

\* withSpinner(message, fn): fn is called once; what it throws is rethrown.
\* calls is the sequence of requests one call of fn issues.
withSpinner(calls) == calls

(***************************************************************************)
(* index.js: printTable.  data is an array of rows, a row maps column     *)
(* keys to string-or-undefined values, columns is an array of             *)
(* [key, label].  No call site passes a column with a `format` function,  *)
(* so the cell text is String(row[col.key] ?? '').                        *)
(***************************************************************************)
MaxColWidth == 50

Col(key, label) == [key |-> key, label |-> label]

CellText(row, col) == StringOf(Nullish(row[col.key], Str("")))

\* widths[col.key] after the forEach over the columns.
ColWidth(data, col) ==
    LET lens == {Len(col.label)} \cup {Len(CellText(data[r], col)) : r \in 1..Len(data)}
        widest == CHOOSE m \in lens : \A l \in lens : l <= m
    IN Min(widest, MaxColWidth)

TableHeader(data, columns) ==
    Join([i \in 1..Len(columns) |->
            padEnd(columns[i].label, ColWidth(data, columns[i]))], "  ")

\* A row line whose cells are padded but never cut.
TableLineNoCut(data, columns, row) ==
    Join([i \in 1..Len(columns) |->
            padEnd(CellText(row, columns[i]), ColWidth(data, columns[i]))], "  ")

TableLine(data, columns, row) ==
    Join([i \in 1..Len(columns) |->
            padEnd(substring0(CellText(row, columns[i]), ColWidth(data, columns[i])),
                   ColWidth(data, columns[i]))], "  ")

\* printTable that prints the rows last to first.
printTableReversed(data, columns) ==
    IF Len(data) = 0
    THEN <<Text("No results found.")>>
    ELSE <<Text(TableHeader(data, columns)),
           Text(Repeat("-", Len(TableHeader(data, columns))))>>
         \o [r \in 1..Len(data) |->
                Text(TableLine(data, columns, data[Len(data) + 1 - r]))]
         \o <<Text("\n" \o NatToStr(Len(data)) \o " result(s)")>>

printTable(data, columns) ==
    IF Len(data) = 0
    THEN <<Text("No results found.")>>
    ELSE <<Text(TableHeader(data, columns)),
           Text(Repeat("-", Len(TableHeader(data, columns))))>>
         \o [r \in 1..Len(data) |-> Text(TableLine(data, columns, data[r]))]
         \o <<Text("\n" \o NatToStr(Len(data)) \o " result(s)")>>

(***************************************************************************)
(* index.js: what each command prints for a successful response when      *)
(* --json is not given.  data is the response body.                       *)
(***************************************************************************)
\* consent.Permissions?.join(', ')
PermissionsText(consent) ==
    IF "Permissions" \in DOMAIN consent
    THEN Str(Join(consent.Permissions, ", "))
    ELSE Undefined

\* label, then (value || 'N/A'), as console.log prints the two arguments.
Field(label, value) == Log2(label, OrElse(value, Str("N/A")).str)

ConsentsCreateView(data) ==
    LET consent == ObjOrEmpty(data, "Data")
    IN <<Text("\nConsent Created\n"),
         Field("Consent ID:    ", Prop(consent, "ConsentId")),
         Field("Status:        ", Prop(consent, "Status")),
         Field("Permissions:   ", PermissionsText(consent)),
         Text("")>>
       \o printSuccess("Consent created successfully")

ConsentsGetView(data) ==
    LET consent == ObjOrEmpty(data, "Data")
    IN <<Text("\nConsent Details\n"),
         Field("Consent ID:    ", Prop(consent, "ConsentId")),
         Field("Status:        ", Prop(consent, "Status")),
         Field("Permissions:   ", PermissionsText(consent)),
         Field("Created:       ", Prop(consent, "CreationDateTime")),
         Field("Expires:       ", Prop(consent, "ExpirationDateTime")),
         Text("")>>

ConsentsDeleteView(consentId) ==
    printSuccess("Consent " \o consentId \o " deleted successfully")

\* data.Data?.<list> || []
DataList(data, list) == ArrOrEmpty(ObjOrEmpty(data, "Data"), list)

\* a.Account?.[0]?.Name
FirstAccountName(a) ==
    IF "Account" \in DOMAIN a /\ Len(a.Account) >= 1
    THEN Prop(a.Account[1], "Name")
    ELSE Undefined

AccountsListRow(a) ==
    [id |-> Prop(a, "AccountId"),
     name |-> OrElse(OrElse(Prop(a, "Nickname"), FirstAccountName(a)), Str("N/A")),
     type |-> OrElse(Prop(a, "AccountType"), Str("N/A")),
     subtype |-> OrElse(Prop(a, "AccountSubType"), Str("N/A"))]

AccountsListColumns ==
    <<Col("id", "Account ID"), Col("name", "Name"), Col("type", "Type"),
      Col("subtype", "Subtype")>>

AccountsListRows(data) ==
    [i \in 1..Len(DataList(data, "Account")) |->
        AccountsListRow(DataList(data, "Account")[i])]

AccountsListView(data) == printTable(AccountsListRows(data), AccountsListColumns)

AccountsGetView(data) ==
    LET list == DataList(data, "Account")
        account == IF Len(list) >= 1 THEN list[1] ELSE EmptyObj
    IN <<Text("\nAccount Details\n"),
         Field("Account ID:    ", Prop(account, "AccountId")),
         Field("Nickname:      ", Prop(account, "Nickname")),
         Field("Type:          ", Prop(account, "AccountType")),
         Field("Subtype:       ", Prop(account, "AccountSubType")),
         Field("Currency:      ", Prop(account, "Currency")),
         Text("")>>

BalancesGetRow(b) ==
    [type |-> Prop(b, "Type"),
     amount |-> OptProp(b, "Amount", "Amount"),
     currency |-> OptProp(b, "Amount", "Currency"),
     creditDebit |-> Prop(b, "CreditDebitIndicator"),
     datetime |-> Prop(b, "DateTime")]

BalancesGetColumns ==
    <<Col("type", "Type"), Col("amount", "Amount"), Col("currency", "Currency"),
      Col("creditDebit", "Credit/Debit"), Col("datetime", "DateTime")>>

BalancesGetRows(data) ==
    [i \in 1..Len(DataList(data, "Balance")) |->
        BalancesGetRow(DataList(data, "Balance")[i])]

BalancesGetView(data) == printTable(BalancesGetRows(data), BalancesGetColumns)

BalancesListRow(b) ==
    [accountId |-> Prop(b, "AccountId"),
     type |-> Prop(b, "Type"),
     amount |-> OptProp(b, "Amount", "Amount"),
     currency |-> OptProp(b, "Amount", "Currency"),
     creditDebit |-> Prop(b, "CreditDebitIndicator")]

BalancesListColumns ==
    <<Col("accountId", "Account ID"), Col("type", "Type"), Col("amount", "Amount"),
      Col("currency", "Currency"), Col("creditDebit", "Credit/Debit")>>

BalancesListRows(data) ==
    [i \in 1..Len(DataList(data, "Balance")) |->
        BalancesListRow(DataList(data, "Balance")[i])]

BalancesListView(data) == printTable(BalancesListRows(data), BalancesListColumns)

TransactionsGetRow(t) ==
    [id |-> Prop(t, "TransactionId"),
     amount |-> OptProp(t, "Amount", "Amount"),
     currency |-> OptProp(t, "Amount", "Currency"),
     creditDebit |-> Prop(t, "CreditDebitIndicator"),
     status |-> Prop(t, "Status"),
     bookingDate |-> Prop(t, "BookingDateTime"),
     description |-> OrElse(Prop(t, "TransactionInformation"), Str("N/A"))]

TransactionsGetColumns ==
    <<Col("id", "Transaction ID"), Col("amount", "Amount"), Col("currency", "Currency"),
      Col("creditDebit", "Credit/Debit"), Col("bookingDate", "Booking Date"),
      Col("description", "Description")>>

TransactionsGetRows(data) ==
    [i \in 1..Len(DataList(data, "Transaction")) |->
        TransactionsGetRow(DataList(data, "Transaction")[i])]

TransactionsGetView(data) == printTable(TransactionsGetRows(data), TransactionsGetColumns)

TransactionsListRow(t) ==
    [accountId |-> Prop(t, "AccountId"),
     id |-> Prop(t, "TransactionId"),
     amount |-> OptProp(t, "Amount", "Amount"),
     currency |-> OptProp(t, "Amount", "Currency"),
     creditDebit |-> Prop(t, "CreditDebitIndicator"),
     bookingDate |-> Prop(t, "BookingDateTime")]

TransactionsListColumns ==
    <<Col("accountId", "Account ID"), Col("id", "Transaction ID"),
      Col("amount", "Amount"), Col("currency", "Currency"),
      Col("creditDebit", "Credit/Debit"), Col("bookingDate", "Booking Date")>>

TransactionsListRows(data) ==
    [i \in 1..Len(DataList(data, "Transaction")) |->
        TransactionsListRow(DataList(data, "Transaction")[i])]

TransactionsListView(data) == printTable(TransactionsListRows(data), TransactionsListColumns)

BeneficiariesGetRow(b) ==
    [id |-> Prop(b, "BeneficiaryId"),
     name |-> OrElse(OptProp(b, "CreditorAccount", "Name"), Str("N/A")),
     accountId |-> OrElse(OptProp(b, "CreditorAccount", "Identification"), Str("N/A")),
     reference |-> OrElse(Prop(b, "Reference"), Str("N/A"))]

BeneficiariesGetColumns ==
    <<Col("id", "Beneficiary ID"), Col("name", "Name"), Col("accountId", "Account ID"),
      Col("reference", "Reference")>>

BeneficiariesGetRows(data) ==
    [i \in 1..Len(DataList(data, "Beneficiary")) |->
        BeneficiariesGetRow(DataList(data, "Beneficiary")[i])]

BeneficiariesGetView(data) == printTable(BeneficiariesGetRows(data), BeneficiariesGetColumns)

StandingOrdersGetRow(o) ==
    [id |-> Prop(o, "StandingOrderId"),
     frequency |-> Prop(o, "Frequency"),
     amount |-> OrElse(OptProp(o, "FirstPaymentAmount", "Amount"),
                       OptProp(o, "FinalPaymentAmount", "Amount")),
     currency |-> OrElse(OptProp(o, "FirstPaymentAmount", "Currency"),
                         OptProp(o, "FinalPaymentAmount", "Currency")),
     nextPayment |-> Prop(o, "NextPaymentDateTime"),
     reference |-> OrElse(Prop(o, "Reference"), Str("N/A"))]

StandingOrdersGetColumns ==
    <<Col("id", "Standing Order ID"), Col("frequency", "Frequency"),
      Col("amount", "Amount"), Col("currency", "Currency"),
      Col("nextPayment", "Next Payment"), Col("reference", "Reference")>>

StandingOrdersGetRows(data) ==
    [i \in 1..Len(DataList(data, "StandingOrder")) |->
        StandingOrdersGetRow(DataList(data, "StandingOrder")[i])]

StandingOrdersGetView(data) == printTable(StandingOrdersGetRows(data), StandingOrdersGetColumns)

ScheduledPaymentsGetRow(p) ==
    [id |-> Prop(p, "ScheduledPaymentId"),
     scheduledDate |-> Prop(p, "ScheduledPaymentDateTime"),
     amount |-> OptProp(p, "InstructedAmount", "Amount"),
     currency |-> OptProp(p, "InstructedAmount", "Currency"),
     reference |-> OrElse(Prop(p, "Reference"), Str("N/A"))]

ScheduledPaymentsGetColumns ==
    <<Col("id", "Payment ID"), Col("scheduledDate", "Scheduled Date"),
      Col("amount", "Amount"), Col("currency", "Currency"),
      Col("reference", "Reference")>>

ScheduledPaymentsGetRows(data) ==
    [i \in 1..Len(DataList(data, "ScheduledPayment")) |->
        ScheduledPaymentsGetRow(DataList(data, "ScheduledPayment")[i])]

ScheduledPaymentsGetView(data) ==
    printTable(ScheduledPaymentsGetRows(data), ScheduledPaymentsGetColumns)

\* s.StatementDescription?.[0]
FirstDescription(s) ==
    IF "StatementDescription" \in DOMAIN s /\ Len(s.StatementDescription) >= 1
    THEN Str(s.StatementDescription[1])
    ELSE Undefined

StatementsGetRow(s) ==
    [id |-> Prop(s, "StatementId"),
     type |-> Prop(s, "Type"),
     startDate |-> Prop(s, "StartDateTime"),
     endDate |-> Prop(s, "EndDateTime"),
     description |-> OrElse(FirstDescription(s), Str("N/A"))]

StatementsGetColumns ==
    <<Col("id", "Statement ID"), Col("type", "Type"), Col("startDate", "Start Date"),
      Col("endDate", "End Date"), Col("description", "Description")>>

StatementsGetRows(data) ==
    [i \in 1..Len(DataList(data, "Statement")) |->
        StatementsGetRow(DataList(data, "Statement")[i])]

StatementsGetView(data) == printTable(StatementsGetRows(data), StatementsGetColumns)

PartyGetView(data) ==
    LET party == ObjOrEmpty(ObjOrEmpty(data, "Data"), "Party")
    IN <<Text("\nParty Information\n"),
         Field("Party ID:      ", Prop(party, "PartyId")),
         Field("Name:          ", Prop(party, "Name")),
         Field("Type:          ", Prop(party, "PartyType")),
         Field("Email:         ", Prop(party, "EmailAddress")),
         Field("Phone:         ", Prop(party, "Phone")),
         Text("")>>

SandboxCreateView(data) ==
    <<Text("\nSandbox Created\n"),
      Field("Sandbox ID:    ", OptProp(data, "Data", "sandboxId")),
      Text("")>>
    \o printSuccess("Sandbox created successfully. Use \"nbg config set --sandbox-id <id>\" to configure it.")

(***************************************************************************)
(* index.js: the two ends of every data command's try / catch.            *)
(***************************************************************************)
\* The success end without the return after printJson.
OnSuccessFallThrough(json, data, view) ==
    [stdout |-> IF json THEN printJson(data) \o view ELSE view,
     stderr |-> <<>>,
     exitCode |-> 0]

\* if (options.json) { printJson(data); return; } ... the command's view
OnSuccess(json, data, view) ==
    [stdout |-> IF json THEN printJson(data) ELSE view,
     stderr |-> <<>>,
     exitCode |-> 0]

\* error.response?.data?.message
ResponseMessage(error) ==
    IF "response" \in DOMAIN error
    THEN OptProp(error.response, "data", "message")
    ELSE Undefined

\* The catch end without process.exit(1).
OnErrorNoExit(error) ==
    [stdout |-> <<>>,
     stderr |-> printError(StringOf(OrElse(ResponseMessage(error), Prop(error, "message")))),
     exitCode |-> 0]

\* The catch end that prints the response's message and the client's own.
OnErrorBothMessages(error) ==
    [stdout |-> <<>>,
     stderr |-> printError(StringOf(ResponseMessage(error)))
                \o printError(StringOf(Prop(error, "message"))),
     exitCode |-> 1]

\* The catch end that prints the client's own message whatever the response.
OnErrorLocalOnly(error) ==
    [stdout |-> <<>>,
     stderr |-> printError(StringOf(Prop(error, "message"))),
     exitCode |-> 1]

\* printError(error.response?.data?.message || error.message); process.exit(1)
OnError(error) ==
    [stdout |-> <<>>,
     stderr |-> printError(StringOf(OrElse(ResponseMessage(error), Prop(error, "message")))),
     exitCode |-> 1]

(***************************************************************************)
(* The inputs of a run: command-line arguments, and what the server or    *)
(* the network answers.                                                    *)
(***************************************************************************)
\* A value longer than a table column may be wide.
LongValue == Repeat("0123456789", 6)

Ids == {"acc-1", "acc-2"}

\* An option that takes a value: absent, given empty, or given.
DateArgs == {Undefined, Str(""), Str("2026-01-01T00:00:00Z")}

BaseUrlArgs == {Undefined, Str(""), Str("https://sandbox.example/v3_1")}

TokenArgs == {Undefined, Str(""), Str("tok-1"), Str("Not set")}

SandboxIdArgs == {Undefined, Str(""), Str("sbx-1")}

DefaultPermissions == <<"ReadAccountsBasic", "ReadBalances">>

PermissionArgs ==
    {[given |-> FALSE, list |-> <<>>],
     [given |-> TRUE, list |-> <<"ReadTransactionsDetail">>],
     [given |-> TRUE, list |-> <<"ReadBalances", "ReadAccountsBasic">>]}

\* Date.now()
Clock == {"1700000000000", "1700000000001"}

NoError == [message |-> ""]

\* What axios rejects with: no response at all, or a non-2xx response whose
\* body may carry a message.
Errors ==
    {[message |-> "Network Error"],
     [message |-> "Request failed with status code 401",
      response |-> [data |-> [message |-> "Invalid access token"]]],
     [message |-> "Request failed with status code 404",
      response |-> [data |-> EmptyObj]],
     [message |-> "Request failed with status code 500",
      response |-> [data |-> [message |-> ""]]]}

Outcomes(bodies) ==
    {[ok |-> TRUE, data |-> b, error |-> NoError] : b \in bodies}
    \cup {[ok |-> FALSE, data |-> EmptyObj, error |-> e] : e \in Errors}

NoResponse == [ok |-> TRUE, data |-> EmptyObj, error |-> NoError]

Lists(items) == UNION {[1..n -> items] : n \in 0..MaxItems}

\* Bodies of a list endpoint: no Data, Data without the list, Data with a list.
ListBodies(list, items) ==
    {EmptyObj, [Data |-> EmptyObj]} \cup {[Data |-> (list :> l)] : l \in Lists(items)}

ConsentBodies ==
    {EmptyObj,
     [Data |-> EmptyObj],
     [Data |-> [ConsentId |-> "urn-consent-1", Permissions |-> <<>>]],
     [Data |-> [ConsentId |-> "urn-consent-1", Status |-> "AwaitingAuthorisation",
                Permissions |-> <<"ReadAccountsBasic", "ReadBalances">>,
                CreationDateTime |-> "2026-01-01T00:00:00Z",
                ExpirationDateTime |-> "2026-12-31T00:00:00Z"]]}

DeleteBodies == {EmptyObj, [Data |-> [Status |-> "Revoked"]]}

AccountItems ==
    {EmptyObj,
     [AccountId |-> "acc-1", Nickname |-> "Main", AccountType |-> "Personal",
      AccountSubType |-> "CurrentAccount", Currency |-> "GBP"],
     [AccountId |-> LongValue, Account |-> <<[Name |-> "J Doe"]>>]}

BalanceItems ==
    {EmptyObj,
     [AccountId |-> "acc-1", Type |-> "ClosingAvailable",
      Amount |-> [Amount |-> "100.00", Currency |-> "GBP"],
      CreditDebitIndicator |-> "Credit", DateTime |-> "2026-01-01T00:00:00Z"],
     [Type |-> LongValue, Amount |-> [Amount |-> "5.00"]]}

TransactionItems ==
    {EmptyObj,
     [AccountId |-> "acc-1", TransactionId |-> "tx-1",
      Amount |-> [Amount |-> "12.50", Currency |-> "GBP"],
      CreditDebitIndicator |-> "Debit", Status |-> "Booked",
      BookingDateTime |-> "2026-01-02T00:00:00Z",
      TransactionInformation |-> "Coffee"],
     [TransactionId |-> "tx-2", AccountId |-> LongValue,
      TransactionInformation |-> LongValue]}

BeneficiaryItems ==
    {EmptyObj,
     [BeneficiaryId |-> "ben-1",
      CreditorAccount |-> [Name |-> "J Doe", Identification |-> "GB00NBG0000001"],
      Reference |-> "Rent"],
     [BeneficiaryId |-> "ben-2", CreditorAccount |-> [Name |-> LongValue]]}

StandingOrderItems ==
    {EmptyObj,
     [StandingOrderId |-> "so-1", Frequency |-> "EvryDay",
      FirstPaymentAmount |-> [Amount |-> "10.00", Currency |-> "GBP"],
      NextPaymentDateTime |-> "2026-02-01T00:00:00Z", Reference |-> "Gym"],
     [StandingOrderId |-> "so-2",
      FinalPaymentAmount |-> [Amount |-> "7.00", Currency |-> "EUR"],
      Reference |-> LongValue]}

ScheduledPaymentItems ==
    {EmptyObj,
     [ScheduledPaymentId |-> "sp-1",
      ScheduledPaymentDateTime |-> "2026-03-01T00:00:00Z",
      InstructedAmount |-> [Amount |-> "20.00", Currency |-> "GBP"],
      Reference |-> "Tax"],
     [ScheduledPaymentId |-> LongValue]}

StatementItems ==
    {EmptyObj,
     [StatementId |-> "st-1", Type |-> "RegularPeriodic",
      StartDateTime |-> "2026-01-01T00:00:00Z", EndDateTime |-> "2026-01-31T00:00:00Z",
      StatementDescription |-> <<"January">>],
     [StatementId |-> "st-2", StatementDescription |-> <<LongValue>>]}

PartyBodies ==
    {EmptyObj,
     [Data |-> EmptyObj],
     [Data |-> [Party |-> EmptyObj]],
     [Data |-> [Party |-> [PartyId |-> "p-1", Name |-> "J Doe"]]],
     [Data |-> [Party |-> [PartyId |-> "p-1", Name |-> "J Doe", PartyType |-> "Sole",
                           EmailAddress |-> "j@doe.example", Phone |-> "+44-1"]]]}

SandboxBodies == {EmptyObj, [Data |-> EmptyObj], [Data |-> [sandboxId |-> "sandbox-1"]]}

(***************************************************************************)
(* The state machine.  cmd.name = "none" between runs: every run is a new *)
(* process that starts with empty streams.                                 *)
(***************************************************************************)
NoCommand == [name |-> "none", id |-> Undefined, opts |-> EmptyObj]

Init ==
    /\ config = [k \in ConfigKeys |-> Undefined]
    /\ stored = [k \in ConfigKeys |-> Undefined]
    /\ cmd = NoCommand
    /\ requests = <<>>
    /\ response = NoResponse
    /\ stdout = <<>>
    /\ stderr = <<>>
    /\ exitCode = 0

\* config set that stores every option given, an empty value included.
ConfigSetEffectStoreGiven(cfg, options) ==
    LET c1 == IF options.baseUrl.def
              THEN setConfig(cfg, "baseUrl", options.baseUrl.str) ELSE cfg
        c2 == IF options.accessToken.def
              THEN setConfig(c1, "accessToken", options.accessToken.str) ELSE c1
        c3 == IF options.sandboxId.def
              THEN setConfig(c2, "sandboxId", options.sandboxId.str) ELSE c2
        none == ~Truthy(options.baseUrl) /\ ~Truthy(options.accessToken)
                /\ ~Truthy(options.sandboxId)
    IN [config |-> c3,
        stdout |-> (IF Truthy(options.baseUrl) THEN printSuccess("Base URL set") ELSE <<>>)
                   \o (IF Truthy(options.accessToken)
                       THEN printSuccess("Access token set") ELSE <<>>)
                   \o (IF Truthy(options.sandboxId)
                       THEN printSuccess("Sandbox ID set") ELSE <<>>),
        stderr |-> IF none
                   THEN printError("No options provided. Use --base-url, --access-token, or --sandbox-id")
                   ELSE <<>>]

\* config set that leaves a key alone once it holds a value.
ConfigSetEffectKeepFirst(cfg, options) ==
    LET c1 == IF Truthy(options.baseUrl) /\ ~cfg.baseUrl.def
              THEN setConfig(cfg, "baseUrl", options.baseUrl.str) ELSE cfg
        c2 == IF Truthy(options.accessToken) /\ ~cfg.accessToken.def
              THEN setConfig(c1, "accessToken", options.accessToken.str) ELSE c1
        c3 == IF Truthy(options.sandboxId) /\ ~cfg.sandboxId.def
              THEN setConfig(c2, "sandboxId", options.sandboxId.str) ELSE c2
        none == ~Truthy(options.baseUrl) /\ ~Truthy(options.accessToken)
                /\ ~Truthy(options.sandboxId)
    IN [config |-> c3,
        stdout |-> (IF Truthy(options.baseUrl) THEN printSuccess("Base URL set") ELSE <<>>)
                   \o (IF Truthy(options.accessToken)
                       THEN printSuccess("Access token set") ELSE <<>>)
                   \o (IF Truthy(options.sandboxId)
                       THEN printSuccess("Sandbox ID set") ELSE <<>>),
        stderr |-> IF none
                   THEN printError("No options provided. Use --base-url, --access-token, or --sandbox-id")
                   ELSE <<>>]

\* config set
ConfigSetEffect(cfg, options) ==
    LET c1 == IF Truthy(options.baseUrl)
              THEN setConfig(cfg, "baseUrl", options.baseUrl.str) ELSE cfg
        c2 == IF Truthy(options.accessToken)
              THEN setConfig(c1, "accessToken", options.accessToken.str) ELSE c1
        c3 == IF Truthy(options.sandboxId)
              THEN setConfig(c2, "sandboxId", options.sandboxId.str) ELSE c2
        none == ~Truthy(options.baseUrl) /\ ~Truthy(options.accessToken)
                /\ ~Truthy(options.sandboxId)
    IN [config |-> c3,
        stdout |-> (IF Truthy(options.baseUrl) THEN printSuccess("Base URL set") ELSE <<>>)
                   \o (IF Truthy(options.accessToken)
                       THEN printSuccess("Access token set") ELSE <<>>)
                   \o (IF Truthy(options.sandboxId)
                       THEN printSuccess("Sandbox ID set") ELSE <<>>),
        stderr |-> IF none
                   THEN printError("No options provided. Use --base-url, --access-token, or --sandbox-id")
                   ELSE <<>>]

ConfigSet ==
    \E baseUrl \in BaseUrlArgs, accessToken \in TokenArgs, sandboxId \in SandboxIdArgs :
        LET options == [baseUrl |-> baseUrl, accessToken |-> accessToken,
                        sandboxId |-> sandboxId]
            effect == ConfigSetEffect(config, options)
        IN /\ cmd.name = "none"
           /\ cmd' = [name |-> "config set", id |-> Undefined, opts |-> options]
           /\ config' = effect.config
           /\ stored' = [k \in ConfigKeys |->
                            IF Truthy(options[k]) THEN options[k] ELSE stored[k]]
           /\ stdout' = effect.stdout
           /\ stderr' = effect.stderr
           /\ exitCode' = 0
           /\ requests' = <<>>
           /\ response' = NoResponse

\* config show that prints the default base URL whatever is stored.
ConfigShowViewDefaultUrl ==
    LET accessToken == OrElse(getConfig("accessToken"), Str("Not set")).str
        sandboxId == OrElse(getConfig("sandboxId"), Str("Not set")).str
    IN <<Text("\nNBG CLI Configuration\n"),
         Log2("Base URL:      ", "https://apis.nbg.gr/uk/v3_1 (default)"),
         Log2("Access Token:  ", IF accessToken = "Not set" THEN accessToken ELSE "Set"),
         Log2("Sandbox ID:    ", sandboxId),
         Text("")>>

\* config show
ConfigShowView ==
    LET baseUrl == OrElse(getConfig("baseUrl"), Str("https://apis.nbg.gr/uk/v3_1 (default)")).str
        accessToken == OrElse(getConfig("accessToken"), Str("Not set")).str
        sandboxId == OrElse(getConfig("sandboxId"), Str("Not set")).str
    IN <<Text("\nNBG CLI Configuration\n"),
         Log2("Base URL:      ", baseUrl),
         Log2("Access Token:  ", IF accessToken = "Not set" THEN accessToken ELSE "Set"),
         Log2("Sandbox ID:    ", sandboxId),
         Text("")>>

ConfigShow ==
    /\ cmd.name = "none"
    /\ cmd' = [name |-> "config show", id |-> Undefined, opts |-> EmptyObj]
    /\ stdout' = ConfigShowView
    /\ stderr' = <<>>
    /\ exitCode' = 0
    /\ requests' = <<>>
    /\ response' = NoResponse
    /\ UNCHANGED <<config, stored>>

\* The body every data command's action shares: the request is issued inside
\* withSpinner, and the outcome of the await selects the end of the try / catch.
RunCommand(name, id, opts, calls, outcome, view) ==
    LET end == IF outcome.ok
               THEN OnSuccess(opts.json, outcome.data, view)
               ELSE OnError(outcome.error)
    IN /\ cmd.name = "none"
       /\ cmd' = [name |-> name, id |-> id, opts |-> opts]
       /\ requests' = withSpinner(calls)
       /\ response' = outcome
       /\ stdout' = end.stdout
       /\ stderr' = end.stderr
       /\ exitCode' = end.exitCode
       /\ UNCHANGED <<config, stored>>

\* The payload that always carries the default permissions.
ConsentsCreatePayloadDefaultOnly(options) ==
    [Data |-> [Permissions |-> DefaultPermissions]
              @@ (IF Truthy(options.expiration)
                  THEN [ExpirationDateTime |-> options.expiration.str]
                  ELSE EmptyObj)]

\* const payload = { Data: { Permissions } }; if (options.expiration) ...
ConsentsCreatePayload(options) ==
    [Data |-> [Permissions |-> options.permissions]
              @@ (IF Truthy(options.expiration)
                  THEN [ExpirationDateTime |-> options.expiration.str]
                  ELSE EmptyObj)]

ConsentsCreate ==
    \E permissions \in PermissionArgs, expiration \in DateArgs, json \in BOOLEAN,
       outcome \in Outcomes(ConsentBodies) :
        LET options == [permissions |-> IF permissions.given THEN permissions.list
                                        ELSE DefaultPermissions,
                        permissionsArg |-> permissions,
                        expiration |-> expiration, json |-> json]
        IN RunCommand("consents create", Undefined, options,
                      <<createConsent(ConsentsCreatePayload(options))>>, outcome,
                      ConsentsCreateView(outcome.data))

ConsentsGet ==
    \E consentId \in Ids, json \in BOOLEAN, outcome \in Outcomes(ConsentBodies) :
        RunCommand("consents get", Str(consentId), [json |-> json],
                   <<getConsent(consentId)>>, outcome, ConsentsGetView(outcome.data))

ConsentsDelete ==
    \E consentId \in Ids, json \in BOOLEAN, outcome \in Outcomes(DeleteBodies) :
        RunCommand("consents delete", Str(consentId), [json |-> json],
                   <<deleteConsent(consentId)>>, outcome, ConsentsDeleteView(consentId))

AccountsList ==
    \E json \in BOOLEAN, outcome \in Outcomes(ListBodies("Account", AccountItems)) :
        RunCommand("accounts list", Undefined, [json |-> json],
                   <<getAccounts(EmptyObj)>>, outcome, AccountsListView(outcome.data))

AccountsGet ==
    \E accountId \in Ids, json \in BOOLEAN,
       outcome \in Outcomes(ListBodies("Account", AccountItems)) :
        RunCommand("accounts get", Str(accountId), [json |-> json],
                   <<getAccount(accountId)>>, outcome, AccountsGetView(outcome.data))

BalancesGet ==
    \E accountId \in Ids, json \in BOOLEAN,
       outcome \in Outcomes(ListBodies("Balance", BalanceItems)) :
        RunCommand("balances get", Str(accountId), [json |-> json],
                   <<getAccountBalances(accountId)>>, outcome, BalancesGetView(outcome.data))

BalancesList ==
    \E json \in BOOLEAN, outcome \in Outcomes(ListBodies("Balance", BalanceItems)) :
        RunCommand("balances list", Undefined, [json |-> json],
                   <<getAllBalances(EmptyObj)>>, outcome, BalancesListView(outcome.data))

\* const params = {}; if (options.from) ...; if (options.to) ...
DateParams(options, fromName, toName) ==
    (IF Truthy(options.from) THEN fromName :> options.from.str ELSE EmptyObj)
    @@ (IF Truthy(options.to) THEN toName :> options.to.str ELSE EmptyObj)

TransactionsGet ==
    \E accountId \in Ids, from \in DateArgs, to \in DateArgs, json \in BOOLEAN,
       outcome \in Outcomes(ListBodies("Transaction", TransactionItems)) :
        LET options == [from |-> from, to |-> to, json |-> json]
            params == DateParams(options, "fromBookingDateTime", "toBookingDateTime")
        IN RunCommand("transactions get", Str(accountId), options,
                      <<getAccountTransactions(accountId, params)>>, outcome,
                      TransactionsGetView(outcome.data))

TransactionsList ==
    \E from \in DateArgs, to \in DateArgs, json \in BOOLEAN,
       outcome \in Outcomes(ListBodies("Transaction", TransactionItems)) :
        LET options == [from |-> from, to |-> to, json |-> json]
            params == DateParams(options, "fromBookingDateTime", "toBookingDateTime")
        IN RunCommand("transactions list", Undefined, options,
                      <<getAllTransactions(params)>>, outcome,
                      TransactionsListView(outcome.data))

BeneficiariesGet ==
    \E accountId \in Ids, json \in BOOLEAN,
       outcome \in Outcomes(ListBodies("Beneficiary", BeneficiaryItems)) :
        RunCommand("beneficiaries get", Str(accountId), [json |-> json],
                   <<getAccountBeneficiaries(accountId)>>, outcome,
                   BeneficiariesGetView(outcome.data))

StandingOrdersGet ==
    \E accountId \in Ids, json \in BOOLEAN,
       outcome \in Outcomes(ListBodies("StandingOrder", StandingOrderItems)) :
        RunCommand("standing-orders get", Str(accountId), [json |-> json],
                   <<getAccountStandingOrders(accountId)>>, outcome,
                   StandingOrdersGetView(outcome.data))

ScheduledPaymentsGet ==
    \E accountId \in Ids, json \in BOOLEAN,
       outcome \in Outcomes(ListBodies("ScheduledPayment", ScheduledPaymentItems)) :
        RunCommand("scheduled-payments get", Str(accountId), [json |-> json],
                   <<getAccountScheduledPayments(accountId)>>, outcome,
                   ScheduledPaymentsGetView(outcome.data))

StatementsGet ==
    \E accountId \in Ids, from \in DateArgs, to \in DateArgs, json \in BOOLEAN,
       outcome \in Outcomes(ListBodies("Statement", StatementItems)) :
        LET options == [from |-> from, to |-> to, json |-> json]
            params == DateParams(options, "fromStatementDateTime", "toStatementDateTime")
        IN RunCommand("statements get", Str(accountId), options,
                      <<getAccountStatements(accountId, params)>>, outcome,
                      StatementsGetView(outcome.data))

PartyGet ==
    \E accountId \in Ids, json \in BOOLEAN, outcome \in Outcomes(PartyBodies) :
        RunCommand("party get", Str(accountId), [json |-> json],
                   <<getAccountParty(accountId)>>, outcome, PartyGetView(outcome.data))

\* sandbox create that also stores the sandbox id the response returns.
SandboxCreateStoresId ==
    \E now \in Clock, json \in BOOLEAN, outcome \in Outcomes(SandboxBodies) :
        LET payload == [Data |-> [sandboxId |-> "sandbox-" \o now]]
            end == IF outcome.ok
                   THEN OnSuccess(json, outcome.data, SandboxCreateView(outcome.data))
                   ELSE OnError(outcome.error)
            returned == OptProp(outcome.data, "Data", "sandboxId")
        IN /\ cmd.name = "none"
           /\ cmd' = [name |-> "sandbox create", id |-> Undefined, opts |-> [json |-> json]]
           /\ requests' = withSpinner(<<createSandbox(payload)>>)
           /\ response' = outcome
           /\ stdout' = end.stdout
           /\ stderr' = end.stderr
           /\ exitCode' = end.exitCode
           /\ config' = IF outcome.ok /\ Truthy(returned)
                        THEN setConfig(config, "sandboxId", returned.str) ELSE config
           /\ UNCHANGED stored

SandboxCreate ==
    \E now \in Clock, json \in BOOLEAN, outcome \in Outcomes(SandboxBodies) :
        LET payload == [Data |-> [sandboxId |-> "sandbox-" \o now]]
        IN RunCommand("sandbox create", Undefined, [json |-> json],
                      <<createSandbox(payload)>>, outcome, SandboxCreateView(outcome.data))

\* The verbs that declare no --json option: config set (index.js:102-104) and
\* config show (none at all).
NoJsonVerbs == {"config set", "config show"}

\* A verb run with an option it does not declare.  commander refuses the
\* command line before the action is called: it writes its own error line
\* and exits with code 1.
UnknownOption ==
    \E name \in NoJsonVerbs :
        /\ cmd.name = "none"
        /\ cmd' = [name |-> name, id |-> Undefined, opts |-> [json |-> TRUE]]
        /\ stdout' = <<>>
        /\ stderr' = <<Text("error: unknown option '--json'")>>
        /\ exitCode' = 1
        /\ requests' = <<>>
        /\ response' = NoResponse
        /\ UNCHANGED <<config, stored>>

\* The process has ended; the next run is a new process.
ProcessExit ==
    /\ cmd.name # "none"
    /\ cmd' = NoCommand
    /\ requests' = <<>>
    /\ response' = NoResponse
    /\ stdout' = <<>>
    /\ stderr' = <<>>
    /\ exitCode' = 0
    /\ UNCHANGED <<config, stored>>

Next ==
    \/ ConfigSet
    \/ ConfigShow
    \/ ConsentsCreate
    \/ ConsentsGet
    \/ ConsentsDelete
    \/ AccountsList
    \/ AccountsGet
    \/ BalancesGet
    \/ BalancesList
    \/ TransactionsGet
    \/ TransactionsList
    \/ BeneficiariesGet
    \/ StandingOrdersGet
    \/ ScheduledPaymentsGet
    \/ StatementsGet
    \/ PartyGet
    \/ SandboxCreate
    \/ UnknownOption
    \/ ProcessExit

Spec == Init /\ [][Next]_vars

(***************************************************************************)
(* Properties.                                                             *)
(***************************************************************************)
DataCommands ==
    {"consents create", "consents get", "consents delete", "accounts list",
     "accounts get", "balances get", "balances list", "transactions get",
     "transactions list", "beneficiaries get", "standing-orders get",
     "scheduled-payments get", "statements get", "party get", "sandbox create"}

\* The last run was a data command.
RanData == cmd.name \in DataCommands

\* The query parameters a request carries.
QueryOf(req) == IF "params" \in DOMAIN req THEN req.params ELSE EmptyObj

\* C1: whenever the HTTP request of a data command fails (no response, or a
\* non-2xx response), the run writes an error line to standard error and ends
\* with exit code 1.
C1_FailureExitsOne ==
    (RanData /\ ~response.ok) =>
        /\ exitCode = 1
        /\ Len(stderr) >= 1
        /\ Len(stderr[1].text) > 2
        /\ SubSeq(stderr[1].text, 1, 2) = "x "

C1_Witness ==
    /\ cmd.name = "accounts list"
    /\ ~response.ok
    /\ "response" \in DOMAIN response.error
    /\ exitCode = 1

\* C2: a data command run with --json whose request succeeds writes to
\* standard output the pretty-printed JSON of the whole response body and
\* nothing else.
C2_JsonIsWholeBody ==
    (RanData /\ response.ok /\ cmd.opts.json) =>
        stdout = <<JSONStringify(response.data, 2)>>

C2_Witness ==
    /\ cmd.name = "consents delete"
    /\ response.ok
    /\ cmd.opts.json
    /\ "Data" \in DOMAIN response.data
    /\ Len(stdout) = 1

\* C3: a run of a data command issues exactly one HTTP request, whether the
\* request succeeds or fails.
C3_ExactlyOneRequest == RanData => Len(requests) = 1

C3_Witness ==
    /\ cmd.name = "consents create"
    /\ ~response.ok
    /\ Len(requests) = 1

\* The method and path the interface documents for each command.
Route(name, id) ==
    CASE name = "consents create" -> <<"POST", "/account-access-consents">>
      [] name = "consents get" -> <<"GET", "/account-access-consents/" \o id>>
      [] name = "consents delete" -> <<"DELETE", "/account-access-consents/" \o id>>
      [] name = "accounts list" -> <<"GET", "/accounts">>
      [] name = "accounts get" -> <<"GET", "/accounts/" \o id>>
      [] name = "balances get" -> <<"GET", "/accounts/" \o id \o "/balances">>
      [] name = "balances list" -> <<"GET", "/balances">>
      [] name = "transactions get" -> <<"GET", "/accounts/" \o id \o "/transactions">>
      [] name = "transactions list" -> <<"GET", "/transactions">>
      [] name = "beneficiaries get" -> <<"GET", "/accounts/" \o id \o "/beneficiaries">>
      [] name = "standing-orders get" -> <<"GET", "/accounts/" \o id \o "/standing-orders">>
      [] name = "scheduled-payments get" ->
            <<"GET", "/accounts/" \o id \o "/scheduled-payments">>
      [] name = "statements get" -> <<"GET", "/accounts/" \o id \o "/statements">>
      [] name = "party get" -> <<"GET", "/accounts/" \o id \o "/party">>
      [] name = "sandbox create" -> <<"POST", "/sandbox">>

\* C4: every request a command issues has the method and path of its command,
\* with the positional argument in the place of {id}.
C4_MethodAndPath ==
    RanData =>
        \A i \in 1..Len(requests) :
            <<requests[i].method, requests[i].url>> = Route(cmd.name, cmd.id.str)

C4_Witness ==
    /\ cmd.name = "balances get"
    /\ cmd.id = Str("acc-2")
    /\ Len(requests) = 1
    /\ requests[1].url = "/accounts/acc-2/balances"

\* The query has the from-parameter exactly if hasFrom and the to-parameter
\* exactly if hasTo, with the values of --from and --to.
QueryIs(q, fromName, toName, hasFrom, hasTo, opts) ==
    /\ DOMAIN q = (IF hasFrom THEN {fromName} ELSE {}) \cup (IF hasTo THEN {toName} ELSE {})
    /\ hasFrom => q[fromName] = opts.from.str
    /\ hasTo => q[toName] = opts.to.str

\* C5 as stated: the from- / to-parameter is sent exactly if --from / --to is
\* given; commands without these options send no query parameters.
C5_QueryIffGiven ==
    RanData =>
        \A i \in 1..Len(requests) :
            IF cmd.name \in {"transactions get", "transactions list"}
            THEN QueryIs(QueryOf(requests[i]), "fromBookingDateTime", "toBookingDateTime",
                         cmd.opts.from.def, cmd.opts.to.def, cmd.opts)
            ELSE IF cmd.name = "statements get"
            THEN QueryIs(QueryOf(requests[i]), "fromStatementDateTime",
                         "toStatementDateTime", cmd.opts.from.def, cmd.opts.to.def, cmd.opts)
            ELSE DOMAIN QueryOf(requests[i]) = {}

\* C5, amended: the from- / to-parameter is sent exactly if --from / --to is
\* given with a non-empty value, and then with that value; commands without
\* these options send no query parameters.
C5_QueryIffNonEmpty ==
    RanData =>
        \A i \in 1..Len(requests) :
            IF cmd.name \in {"transactions get", "transactions list"}
            THEN QueryIs(QueryOf(requests[i]), "fromBookingDateTime", "toBookingDateTime",
                         cmd.opts.from.def /\ cmd.opts.from.str # "",
                         cmd.opts.to.def /\ cmd.opts.to.str # "", cmd.opts)
            ELSE IF cmd.name = "statements get"
            THEN QueryIs(QueryOf(requests[i]), "fromStatementDateTime",
                         "toStatementDateTime",
                         cmd.opts.from.def /\ cmd.opts.from.str # "",
                         cmd.opts.to.def /\ cmd.opts.to.str # "", cmd.opts)
            ELSE DOMAIN QueryOf(requests[i]) = {}

C5_Witness ==
    /\ cmd.name = "transactions list"
    /\ cmd.opts.from = Str("2026-01-01T00:00:00Z")
    /\ cmd.opts.to = Str("")
    /\ Len(requests) = 1
    /\ DOMAIN QueryOf(requests[1]) = {"fromBookingDateTime"}

\* C6: a request carries Authorization: Bearer <accessToken> exactly if an
\* access token is configured, and sandbox-id: <sandboxId> exactly if a
\* sandbox id is configured.
C6_AuthHeaders ==
    RanData =>
        \A i \in 1..Len(requests) :
            LET h == requests[i].headers
            IN /\ config.accessToken.def =>
                    /\ "Authorization" \in DOMAIN h
                    /\ h["Authorization"] = "Bearer " \o config.accessToken.str
               /\ ~config.accessToken.def => "Authorization" \notin DOMAIN h
               /\ config.sandboxId.def =>
                    /\ "sandbox-id" \in DOMAIN h
                    /\ h["sandbox-id"] = config.sandboxId.str
               /\ ~config.sandboxId.def => "sandbox-id" \notin DOMAIN h

C6_Witness ==
    /\ RanData
    /\ Len(requests) = 1
    /\ config.accessToken = Str("tok-1")
    /\ ~config.sandboxId.def
    /\ "Authorization" \in DOMAIN requests[1].headers

\* C7: a request goes to https://apis.nbg.gr/uk/v3_1 as long as config set has
\* stored no base URL, and to the base URL config set stored last otherwise.
C7_BaseUrl ==
    RanData =>
        \A i \in 1..Len(requests) :
            requests[i].baseURL =
                IF stored.baseUrl.def THEN stored.baseUrl.str
                ELSE "https://apis.nbg.gr/uk/v3_1"

C7_Witness ==
    /\ RanData
    /\ Len(requests) = 1
    /\ stored.baseUrl = Str("https://sandbox.example/v3_1")
    /\ requests[1].baseURL = "https://sandbox.example/v3_1"

\* The last run was config show, and its action ran.
Showed == cmd.name = "config show" /\ "json" \notin DOMAIN cmd.opts

\* C8 as stated: config show displays, for each of the three keys, the value
\* config set stored last for it.
C8_ShowDisplaysStored ==
    Showed =>
        /\ stored.baseUrl.def => stdout[2].text = "Base URL:       " \o stored.baseUrl.str
        /\ stored.accessToken.def =>
                stdout[3].text = "Access Token:   " \o stored.accessToken.str
        /\ stored.sandboxId.def => stdout[4].text = "Sandbox ID:     " \o stored.sandboxId.str

\* C8, amended: config show displays the stored value for baseUrl and
\* sandboxId; for accessToken it displays the word Set in place of the stored
\* value, unless that value is the text "Not set", which is displayed as is.
C8_ShowDisplaysStoredOrSet ==
    Showed =>
        /\ stored.baseUrl.def => stdout[2].text = "Base URL:       " \o stored.baseUrl.str
        /\ stored.accessToken.def =>
                stdout[3].text = "Access Token:   "
                    \o (IF stored.accessToken.str = "Not set" THEN "Not set" ELSE "Set")
        /\ stored.sandboxId.def => stdout[4].text = "Sandbox ID:     " \o stored.sandboxId.str

C8_Witness ==
    /\ cmd.name = "config show"
    /\ stored.baseUrl.def
    /\ stored.accessToken = Str("tok-1")
    /\ stored.sandboxId.def
    /\ stdout[3].text = "Access Token:   Set"

TableCommands ==
    {"accounts list", "balances get", "balances list", "transactions get",
     "transactions list", "beneficiaries get", "standing-orders get",
     "scheduled-payments get", "statements get"}

\* The list of the response body a table command prints.
ItemsOf(name, data) ==
    CASE name = "accounts list" -> DataList(data, "Account")
      [] name \in {"balances get", "balances list"} -> DataList(data, "Balance")
      [] name \in {"transactions get", "transactions list"} -> DataList(data, "Transaction")
      [] name = "beneficiaries get" -> DataList(data, "Beneficiary")
      [] name = "standing-orders get" -> DataList(data, "StandingOrder")
      [] name = "scheduled-payments get" -> DataList(data, "ScheduledPayment")
      [] name = "statements get" -> DataList(data, "Statement")

\* The rows and the columns a table command hands to printTable.
RowsOf(name, data) ==
    CASE name = "accounts list" -> AccountsListRows(data)
      [] name = "balances get" -> BalancesGetRows(data)
      [] name = "balances list" -> BalancesListRows(data)
      [] name = "transactions get" -> TransactionsGetRows(data)
      [] name = "transactions list" -> TransactionsListRows(data)
      [] name = "beneficiaries get" -> BeneficiariesGetRows(data)
      [] name = "standing-orders get" -> StandingOrdersGetRows(data)
      [] name = "scheduled-payments get" -> ScheduledPaymentsGetRows(data)
      [] name = "statements get" -> StatementsGetRows(data)

ColumnsOf(name) ==
    CASE name = "accounts list" -> AccountsListColumns
      [] name = "balances get" -> BalancesGetColumns
      [] name = "balances list" -> BalancesListColumns
      [] name = "transactions get" -> TransactionsGetColumns
      [] name = "transactions list" -> TransactionsListColumns
      [] name = "beneficiaries get" -> BeneficiariesGetColumns
      [] name = "standing-orders get" -> StandingOrdersGetColumns
      [] name = "scheduled-payments get" -> ScheduledPaymentsGetColumns
      [] name = "statements get" -> StatementsGetColumns

\* The last run printed a table with at least one row.
PrintedTable ==
    /\ cmd.name \in TableCommands
    /\ response.ok
    /\ ~cmd.opts.json
    /\ Len(ItemsOf(cmd.name, response.data)) > 0

\* The last run printed its human-readable view of a successful response.
PrintedView == RanData /\ response.ok /\ ~cmd.opts.json

RECURSIVE StripSpaces(_)
\* s without its spaces.
StripSpaces(s) ==
    IF Len(s) = 0 THEN ""
    ELSE IF Len(s) = 1 THEN (IF s = " " THEN "" ELSE s)
    ELSE StripSpaces(SubSeq(s, 1, Len(s) \div 2))
         \o StripSpaces(SubSeq(s, (Len(s) \div 2) + 1, Len(s)))

RECURSIVE Concat(_)
Concat(seq) == IF Len(seq) = 0 THEN "" ELSE seq[1] \o Concat(Tail(seq))

\* The fields a detail view shows: the line of standard output, its label, and
\* the field of the object the view reads.
DetailFields(name) ==
    CASE name = "consents create" ->
            {<<2, "Consent ID:    ", "ConsentId">>, <<3, "Status:        ", "Status">>,
             <<4, "Permissions:   ", "Permissions">>}
      [] name = "consents get" ->
            {<<2, "Consent ID:    ", "ConsentId">>, <<3, "Status:        ", "Status">>,
             <<4, "Permissions:   ", "Permissions">>,
             <<5, "Created:       ", "CreationDateTime">>,
             <<6, "Expires:       ", "ExpirationDateTime">>}
      [] name = "accounts get" ->
            {<<2, "Account ID:    ", "AccountId">>, <<3, "Nickname:      ", "Nickname">>,
             <<4, "Type:          ", "AccountType">>,
             <<5, "Subtype:       ", "AccountSubType">>,
             <<6, "Currency:      ", "Currency">>}
      [] name = "party get" ->
            {<<2, "Party ID:      ", "PartyId">>, <<3, "Name:          ", "Name">>,
             <<4, "Type:          ", "PartyType">>, <<5, "Email:         ", "EmailAddress">>,
             <<6, "Phone:         ", "Phone">>}
      [] name = "sandbox create" -> {<<2, "Sandbox ID:    ", "sandboxId">>}
      [] OTHER -> {}

\* The object of the response body a detail view reads its fields from.
DetailObject(name, data) ==
    CASE name = "accounts get" ->
            IF Len(DataList(data, "Account")) >= 1
            THEN DataList(data, "Account")[1] ELSE EmptyObj
      [] name = "party get" -> ObjOrEmpty(ObjOrEmpty(data, "Data"), "Party")
      [] OTHER -> ObjOrEmpty(data, "Data")

\* C9: in the human-readable output of a successful response every missing
\* field is shown as N/A, in detail views and in table cells alike (the row of
\* an item with no fields is N/A in every column), and the run does not fail.
C9_MissingIsNA ==
    PrintedView =>
        /\ exitCode = 0
        /\ stderr = <<>>
        /\ \A f \in DetailFields(cmd.name) :
                f[3] \notin DOMAIN DetailObject(cmd.name, response.data)
                    => stdout[f[1]].text = f[2] \o " N/A"
        /\ cmd.name \in TableCommands =>
                \A r \in 1..Len(ItemsOf(cmd.name, response.data)) :
                    ItemsOf(cmd.name, response.data)[r] = EmptyObj
                        => StripSpaces(stdout[2 + r].text)
                            = Concat([c \in 1..Len(ColumnsOf(cmd.name)) |-> "N/A"])

\* The one width of a column: the longest of its label and its cell values,
\* but no more than 50.
WidthOf(rows, col) ==
    LET lens == {Len(col.label)}
                \cup {Len(Nullish(rows[r][col.key], Str("")).str) : r \in 1..Len(rows)}
    IN Min(50, CHOOSE m \in lens : \A l \in lens : l <= m)

\* s as exactly w characters: cut to its first w, or padded with spaces.
FitTo(s, w) == IF Len(s) >= w THEN SubSeq(s, 1, w) ELSE s \o Repeat(" ", w - Len(s))

\* C10: printTable gives every column one width w <= 50 and prints the label
\* and every cell of the column as exactly w characters (cut or padded), the
\* columns two spaces apart, so the header, the rule under it and every row
\* have the same length.
C10_ColumnsAligned ==
    PrintedTable =>
        LET rows == RowsOf(cmd.name, response.data)
            cols == ColumnsOf(cmd.name)
            w == [c \in 1..Len(cols) |-> WidthOf(rows, cols[c])]
        IN /\ \A c \in 1..Len(cols) : w[c] <= 50
           /\ Len(stdout) = Len(rows) + 3
           /\ stdout[1].text = Join([c \in 1..Len(cols) |-> FitTo(cols[c].label, w[c])], "  ")
           /\ Len(stdout[2].text) = Len(stdout[1].text)
           /\ \A r \in 1..Len(rows) :
                /\ stdout[2 + r].text
                     = Join([c \in 1..Len(cols) |->
                               FitTo(Nullish(rows[r][cols[c].key], Str("")).str, w[c])], "  ")
                /\ Len(stdout[2 + r].text) = Len(stdout[1].text)

C10_Witness ==
    /\ PrintedTable
    /\ cmd.name = "transactions get"
    /\ Len(stdout) = 5
    /\ \E r \in 1..2 :
            Len(TransactionsGetRows(response.data)[r].description.str) > 50
    /\ \E r \in 1..2 :
            Len(TransactionsGetRows(response.data)[r].description.str) < 50
    /\ Len(stdout[3].text) = Len(stdout[1].text)
    /\ Len(stdout[4].text) = Len(stdout[1].text)

\* The last run was given --json and, if it made a request, the request
\* succeeded.
GivenJson ==
    /\ cmd.name # "none"
    /\ "json" \in DOMAIN cmd.opts
    /\ cmd.opts.json
    /\ RanData => response.ok

\* C11: every verb, config set and config show included, accepts --json, and a
\* run given --json writes JSON, and only JSON, to standard output.
C11_EveryVerbEmitsJson ==
    GivenJson =>
        /\ exitCode = 0
        /\ Len(stdout) = 1
        /\ "json" \in DOMAIN stdout[1]

\* The last run was a data command whose request failed.
Failed == RanData /\ ~response.ok

\* The failure carries a response whose body has a message (a non-empty text).
HasServerMessage(error) ==
    /\ "response" \in DOMAIN error
    /\ "data" \in DOMAIN error.response
    /\ "message" \in DOMAIN error.response.data
    /\ error.response.data.message # ""

\* C12: the error line of a failed request shows the message of the error
\* response body whenever the failure carries a response with such a message,
\* and the HTTP client's own error message otherwise.
C12_ServerMessageElseLocal ==
    Failed =>
        /\ Len(stderr) >= 1
        /\ stderr[1].text =
                "x " \o (IF HasServerMessage(response.error)
                         THEN response.error.response.data.message
                         ELSE response.error.message)

C12_Witness ==
    /\ Failed
    /\ cmd.name = "party get"
    /\ HasServerMessage(response.error)
    /\ response.error.message = "Request failed with status code 401"
    /\ stderr = <<Text("x Invalid access token")>>

\* C13: a failed request is surfaced as a single error message: the run writes
\* exactly one error line to standard error and nothing to standard output
\* (no JSON, table, detail line or success message).
C13_SingleErrorLine ==
    Failed =>
        /\ Len(stderr) = 1
        /\ DOMAIN stderr[1] = {"text"}
        /\ SubSeq(stderr[1].text, 1, 2) = "x "
        /\ stdout = <<>>

C13_Witness ==
    /\ Failed
    /\ cmd.name = "consents create"
    /\ cmd.opts.json
    /\ "response" \in DOMAIN response.error
    /\ Len(stderr) = 1
    /\ stdout = <<>>

\* The headers a request must carry for the values config set stored last.
HeaderIs(h, name, value, prefix) ==
    IF value.def
    THEN name \in DOMAIN h /\ h[name] = prefix \o value.str
    ELSE name \notin DOMAIN h

\* C14: the configuration is read anew for each request: in any sequence of
\* config set and data commands, the base URL, the Authorization header and
\* the sandbox-id header of a request are those of the most recent config set
\* of the respective key before the command, or the default base URL / no
\* header if the key was never set.
C14_ReadsLatestConfig ==
    RanData =>
        \A i \in 1..Len(requests) :
            /\ requests[i].baseURL =
                    (IF stored.baseUrl.def THEN stored.baseUrl.str ELSE DefaultBaseUrl)
            /\ HeaderIs(requests[i].headers, "Authorization", stored.accessToken, "Bearer ")
            /\ HeaderIs(requests[i].headers, "sandbox-id", stored.sandboxId, "")

C14_Witness ==
    /\ cmd.name = "accounts list"
    /\ Len(requests) = 1
    /\ stored.baseUrl.def
    /\ stored.accessToken = Str("Not set")
    /\ stored.sandboxId = Str("sbx-1")
    /\ requests[1].baseURL = stored.baseUrl.str
    /\ requests[1].headers["Authorization"] = "Bearer Not set"
    /\ requests[1].headers["sandbox-id"] = "sbx-1"

\* The body of the request consents create sent carries the permissions the
\* command line selects, and ExpirationDateTime exactly if hasExpiration.
ConsentBodyIs(body, opts, hasExpiration) ==
    /\ DOMAIN body = {"Data"}
    /\ body.Data.Permissions =
            (IF opts.permissionsArg.given THEN opts.permissionsArg.list
             ELSE <<"ReadAccountsBasic", "ReadBalances">>)
    /\ ("ExpirationDateTime" \in DOMAIN body.Data) <=> hasExpiration
    /\ hasExpiration => body.Data.ExpirationDateTime = opts.expiration.str

\* C15 as stated: consents create sends ReadAccountsBasic and ReadBalances
\* when --permissions is not given and exactly the given list otherwise, and
\* the body has ExpirationDateTime exactly if --expiration is given.
C15_ExpirationIffGiven ==
    cmd.name = "consents create" =>
        \A i \in 1..Len(requests) :
            ConsentBodyIs(requests[i].data, cmd.opts, cmd.opts.expiration.def)

\* C15, amended: the same permissions, and the body has ExpirationDateTime
\* exactly if --expiration is given with a non-empty value.
C15_ExpirationIffNonEmpty ==
    cmd.name = "consents create" =>
        \A i \in 1..Len(requests) :
            ConsentBodyIs(requests[i].data, cmd.opts,
                          cmd.opts.expiration.def /\ cmd.opts.expiration.str # "")

C15_Witness ==
    /\ cmd.name = "consents create"
    /\ cmd.opts.permissionsArg.given
    /\ cmd.opts.expiration = Str("")
    /\ Len(requests) = 1
    /\ requests[1].data.Data.Permissions = <<"ReadBalances", "ReadAccountsBasic">>
    /\ "ExpirationDateTime" \notin DOMAIN requests[1].data.Data

\* The option of config set for key k was provided with a non-empty value.
Provided(opts, k) == opts[k].def /\ opts[k].str # ""

\* The step is a run of config set whose action ran.
SetStep == cmd'.name = "config set" /\ "json" \notin DOMAIN cmd'.opts

\* C16: config set changes only the keys whose option was provided with a
\* non-empty value, to that value, and leaves the other keys unchanged; when
\* none of --base-url, --access-token, --sandbox-id is provided it prints an
\* error and changes no key.
C16_SetChangesOnlyProvided ==
    [][SetStep =>
        /\ \A k \in ConfigKeys :
                config'[k] = IF Provided(cmd'.opts, k) THEN Str(cmd'.opts[k].str)
                             ELSE config[k]
        /\ (\A k \in ConfigKeys : ~cmd'.opts[k].def) =>
                /\ config' = config
                /\ Len(stderr') = 1
                /\ SubSeq(stderr'[1].text, 1, 2) = "x "
                /\ stdout' = <<>>]_vars

C16_Witness ==
    /\ cmd.name = "config set"
    /\ "json" \notin DOMAIN cmd.opts
    /\ cmd.opts.baseUrl = Str("")
    /\ cmd.opts.accessToken = Str("tok-1")
    /\ ~cmd.opts.sandboxId.def
    /\ ~config.baseUrl.def
    /\ config.accessToken = Str("tok-1")
    /\ config.sandboxId = Str("sbx-1")

\* C17: only config set writes the persisted configuration: a run of config
\* show or of any data command, sandbox create included, leaves baseUrl,
\* accessToken and sandboxId as they were, whether its request succeeds or
\* fails.
C17_OnlySetWrites ==
    [][cmd'.name \in (DataCommands \cup {"config show"}) => config' = config]_vars

C17_Witness ==
    /\ cmd.name = "sandbox create"
    /\ response.ok
    /\ ~cmd.opts.json
    /\ OptProp(response.data, "Data", "sandboxId") = Str("sandbox-1")
    /\ stdout[2].text = "Sandbox ID:     sandbox-1"
    /\ config.sandboxId = Str("sbx-1")
    /\ config.accessToken.def

\* C18: config show never reveals the stored access token: its output shows
\* the word Set for any stored token and Not set when none is stored, and the
\* other lines depend on baseUrl and sandboxId only, so two configurations
\* that differ only in the token value produce the same output.
C18_ShowHidesToken ==
    Showed =>
        /\ Len(stdout) = 5
        /\ stdout[1].text = "\nNBG CLI Configuration\n"
        /\ stdout[2].text = "Base URL:       "
                \o (IF config.baseUrl.def THEN config.baseUrl.str
                    ELSE "https://apis.nbg.gr/uk/v3_1 (default)")
        /\ stdout[3].text = "Access Token:   "
                \o (IF config.accessToken.def THEN "Set" ELSE "Not set")
        /\ stdout[4].text = "Sandbox ID:     "
                \o (IF config.sandboxId.def THEN config.sandboxId.str ELSE "Not set")
        /\ stdout[5].text = ""

\* The table row a command makes of one item of the response.
RowOf(name, item) ==
    CASE name = "accounts list" -> AccountsListRow(item)
      [] name = "balances get" -> BalancesGetRow(item)
      [] name = "balances list" -> BalancesListRow(item)
      [] name = "transactions get" -> TransactionsGetRow(item)
      [] name = "transactions list" -> TransactionsListRow(item)
      [] name = "beneficiaries get" -> BeneficiariesGetRow(item)
      [] name = "standing-orders get" -> StandingOrdersGetRow(item)
      [] name = "scheduled-payments get" -> ScheduledPaymentsGetRow(item)
      [] name = "statements get" -> StatementsGetRow(item)

\* The last run was a table command that rendered a successful response.
RenderedTable == cmd.name \in TableCommands /\ response.ok /\ ~cmd.opts.json

\* The text of the count line for n items.
CountLine(n) == "\n" \o NatToStr(n) \o " result(s)"

\* C19: a table command run without --json on a successful response with no
\* items (the list is empty, or Data or the list field is absent) prints only
\* "No results found." and does not exit with code 1; otherwise it prints,
\* after the header and the rule, one row per item in the order of the
\* response, and then a count line with the number of items.
C19_EmptyOrRowPerItem ==
    RenderedTable =>
        LET items == ItemsOf(cmd.name, response.data)
            n == Len(items)
            cols == ColumnsOf(cmd.name)
            rows == [r \in 1..n |-> RowOf(cmd.name, items[r])]
            w == [c \in 1..Len(cols) |-> WidthOf(rows, cols[c])]
        IN /\ exitCode # 1
           /\ IF n = 0
              THEN stdout = <<Text("No results found.")>>
              ELSE /\ Len(stdout) = n + 3
                   /\ \A r \in 1..n :
                        stdout[2 + r].text
                            = Join([c \in 1..Len(cols) |->
                                      FitTo(Nullish(rows[r][cols[c].key], Str("")).str,
                                            w[c])], "  ")
                   /\ stdout[n + 3].text = CountLine(n)

C19_Witness ==
    /\ RenderedTable
    /\ cmd.name = "beneficiaries get"
    /\ Len(ItemsOf(cmd.name, response.data)) = 2
    /\ ItemsOf(cmd.name, response.data)[1] # ItemsOf(cmd.name, response.data)[2]
    /\ stdout[3] # stdout[4]
    /\ stdout[5].text = CountLine(2)

\* A table command given a successful response without the list field.
C19_WitnessNoList ==
    /\ RenderedTable
    /\ cmd.name = "statements get"
    /\ response.data = [Data |-> EmptyObj]
    /\ stdout = <<Text("No results found.")>>
    /\ exitCode = 0

====
